---------------------------- MODULE Spec2Model ----------------------------
(***************************************************************************)
(* Model of netatmo_to_cloudwatch.py: the walk of the Netatmo station tree *)
(* that builds the list of CloudWatch metric records                       *)
(* (fetch_weather_data) and the loop that sends that list to CloudWatch in *)
(* calls of put_metric_data (send_data_to_cloudwatch).                     *)
(*                                                                         *)
(* Python values: a dict is a function from its keys (strings) to its      *)
(* values; a list is a sequence; None is <<>> and any other value v read   *)
(* through dict.get is <<v>>.                                              *)
(***************************************************************************)
EXTENDS Integers, Sequences, FiniteSets, TLC

(***************************************************************************)
(* Bounds of the model.                                                    *)
(***************************************************************************)
\* Stations plus modules in one weather_data tree.
MaxSources == 3
\* Longest list handed to send_data_to_cloudwatch.
MaxN == 45

(***************************************************************************)
(* Python helpers.                                                         *)
(***************************************************************************)
None == <<>>

Some(v) == <<v>>

EmptyDict == [k \in {} |-> k]

\* dict.get(key): the value, or None when the key is missing.
PyGet(d, key) == IF key \in DOMAIN d THEN Some(d[key]) ELSE None

Min(a, b) == IF a <= b THEN a ELSE b

Max(a, b) == IF a >= b THEN a ELSE b

\* A slice bound as Python clamps it: negative counts from the end.
PyIndex(i, n) == IF i < 0 THEN Max(i + n, 0) ELSE Min(i, n)

\* seq[lo:hi], lo and hi 0-based, hi exclusive.
PySlice(seq, lo, hi) ==
    SubSeq(seq, PyIndex(lo, Len(seq)) + 1, PyIndex(hi, Len(seq)))

(***************************************************************************)
(* get_dashboard_data, get_data, create_metric_data.                       *)
(***************************************************************************)
\* Variant of get_dashboard_data that reads the source itself, not its
\* dashboard.
get_dashboard_data_top(item_name, source) == PyGet(source, item_name)

get_dashboard_data(item_name, source) ==
    IF "dashboard_data" \in DOMAIN source
    THEN PyGet(source["dashboard_data"], item_name)
    ELSE None

get_data(item_name, source) == PyGet(source, item_name)

create_metric_data(metric_name, dimension_value, metric_value, metric_timestamp) ==
    [ MetricName |-> metric_name,
      Dimensions |-> << [Name |-> "ModuleName", Value |-> dimension_value] >>,
      Unit       |-> "None",
      Value      |-> metric_value,
      Timestamp  |-> metric_timestamp ]


(***************************************************************************)
(* The trees pyatmo.WeatherStationData(...).stations can hold, within the  *)
(* bound: every station and module is a complete Netatmo record or one     *)
(* with keys missing.  Names and dashboard times differ from source to     *)
(* source.                                                                 *)
(***************************************************************************)
StationNames == << "Home", "Garden", "Office", "Cabin", "Barn" >>

ModuleNames == << "Outdoor", "Indoor", "Rain gauge", "Attic", "Cellar" >>

NameAt(names, k) == names[((k - 1) % Len(names)) + 1]

\* Dashboard time of module j of station s (j = 0: the station itself).
TimeOf(s, j) == 1000 * s + j

StationReadings ==
    [Temperature |-> 21, CO2 |-> 450, Humidity |-> 40, Noise |-> 35, Pressure |-> 1013]

ModuleReadings ==
    [Temperature |-> 11, Humidity |-> 70, CO2 |-> 600,
     Rain |-> 1, sum_rain_1 |-> 2, sum_rain_24 |-> 3]

\* dict d without key k.
Without(d, k) == [x \in DOMAIN d \ {k} |-> d[x]]

FullStation(s) ==
    [module_name    |-> NameAt(StationNames, s),
     dashboard_data |-> ("time_utc" :> TimeOf(s, 0)) @@ StationReadings]

\* A station's own keys: complete, or with keys missing.
StationOwn(s) ==
    LET full == FullStation(s)
    IN  { full,
          Without(full, "dashboard_data"),
          [full EXCEPT !["dashboard_data"] = "time_utc" :> TimeOf(s, 0)],
          [dashboard_data |-> Without(StationReadings, "Pressure")] }

Tags == {"Temperature", "CO2", "Rain"}

\* The data_type lists: every subset of the tags the code reads, and a list
\* holding a tag it does not read.
TagSets == (SUBSET Tags) \cup {{"Wind"}}

FullModule(s, j) ==
    [module_name    |-> NameAt(ModuleNames, j),
     reachable      |-> TRUE,
     data_type      |-> Tags,
     rf_status      |-> 60 + j,
     battery_vp     |-> 5000 + j,
     dashboard_data |-> ("time_utc" :> TimeOf(s, j)) @@ ModuleReadings]

\* A module: complete with each data_type list, with a key missing, with
\* only the keys the code subscripts, or unreachable.
ModuleVariants(s, j) ==
    LET full == FullModule(s, j)
    IN  { [full EXCEPT !["data_type"] = t] : t \in TagSets }
        \cup { Without(full, k) : k \in DOMAIN full }
        \cup { [reachable      |-> TRUE,
                data_type      |-> Tags,
                dashboard_data |-> Without(ModuleReadings, "Humidity")],
               [full EXCEPT !["reachable"] = FALSE],
               [reachable |-> FALSE] }

\* The lists of n modules of station s.
RECURSIVE ModuleSeqs(_, _)
ModuleSeqs(s, n) ==
    IF n = 0 THEN {<<>>}
    ELSE {Append(p, m) : p \in ModuleSeqs(s, n - 1), m \in ModuleVariants(s, n)}

\* Station s with n modules; with none, the "modules" key may be missing.
StationsWith(s, n) ==
    { own @@ mods :
        own \in StationOwn(s),
        mods \in {("modules" :> l) : l \in ModuleSeqs(s, n)}
                 \cup (IF n = 0 THEN {EmptyDict} ELSE {}) }

\* tree is a station list that extends prefix (s - 1 stations) by stations
\* holding at most budget sources in all.
RECURSIVE IsTreeFrom(_, _, _, _)
IsTreeFrom(tree, prefix, s, budget) ==
    \/ tree = prefix
    \/ \E n \in 0 .. (budget - 1) :
         \E st \in StationsWith(s, n) :
            IsTreeFrom(tree, Append(prefix, st), s + 1, budget - 1 - n)

\* The lists fetch_weather_data can hand to send_data_to_cloudwatch, by
\* length: record i is told from the others by its value.
MetricList(n) ==
    [i \in 1 .. n |-> create_metric_data("Temperature", Some("Home"), Some(i), Some(1000))]

(***************************************************************************)
(* State.                                                                  *)
(*   weather_data      the stations, in the order the dict yields them     *)
(*   metric_data       the list fetch_weather_data builds                  *)
(*   origin            for each record of metric_data, the source (station *)
(*                     s, module j; j = 0 for the station) whose body      *)
(*                     appended it                                         *)
(*   walked            the sources whose body ran to its end               *)
(*   station_idx, module_idx   position of the two for loops               *)
(*   event_data, item_count, current_position, end_position, data          *)
(*                     the parameter and locals of send_data_to_cloudwatch *)
(*   put_calls         the MetricData argument of each put_metric_data     *)
(*                     call, in call order                                 *)
(*   responses         how many of these calls returned a response         *)
(*   pc                where control is                                    *)
(***************************************************************************)
VARIABLES weather_data, metric_data, origin, walked, station_idx, module_idx,
          event_data, item_count, current_position, end_position, data,
          put_calls, responses, pc

fetch_vars == <<weather_data, metric_data, origin, walked, station_idx, module_idx>>

send_vars == <<event_data, item_count, current_position, end_position, data,
               put_calls, responses>>

vars == <<fetch_vars, send_vars, pc>>

(***************************************************************************)
(* fetch_weather_data: the walk of the stations and their modules.         *)
(***************************************************************************)
\* Lines 51-75: the five records of a station.
StationMetrics(station) ==
    LET station_name == get_data("module_name", station)
        station_time == get_dashboard_data("time_utc", station)
    IN  << create_metric_data("Temperature", station_name,
                              get_dashboard_data("Temperature", station), station_time),
           create_metric_data("CO2", station_name,
                              get_dashboard_data("CO2", station), station_time),
           create_metric_data("Humidity", station_name,
                              get_dashboard_data("Humidity", station), station_time),
           create_metric_data("Noise", station_name,
                              get_dashboard_data("Noise", station), station_time),
           create_metric_data("Air_Pressure", station_name,
                              get_dashboard_data("Pressure", station), station_time) >>

\* Variant of Reachable that lets every module through.
Reachable_Always(module) == TRUE

\* Line 81: the reachable flag of a module that has one.
Reachable(module) == module["reachable"]

\* Variant of module_time that takes the station's dashboard time.
module_time_station(station, module) == get_dashboard_data("time_utc", station)

\* Line 85: the time of the module's own dashboard; the station's names are
\* in scope there too.
module_time(station, module) == get_dashboard_data("time_utc", module)

\* Variant of HasTag that repeats the first test for every tag.
HasTag_First(tag, module) == "Temperature" \in module["data_type"]

\* Lines 103, 113, 118: tag in module["data_type"].
HasTag(tag, module) == tag \in module["data_type"]

\* Lines 81-133: the body of the module loop.  records: what it appends to
\* metric_data; raised: whether a subscript of a missing key ended it with
\* a KeyError.
ModuleMetrics(station, module) ==
    IF "reachable" \notin DOMAIN module
    THEN [records |-> <<>>, raised |-> TRUE]
    ELSE IF ~Reachable(module)
    THEN [records |-> <<>>, raised |-> FALSE]
    ELSE
    LET name == get_data("module_name", module)
        time == module_time(station, module)
        always ==
            << create_metric_data("Signal_Strength", name,
                                  get_data("rf_status", module), time),
               create_metric_data("Battery_Status", name,
                                  get_data("battery_vp", module), time) >>
        temperature ==
            << create_metric_data("Temperature", name,
                                  get_dashboard_data("Temperature", module), time),
               create_metric_data("Humidity", name,
                                  get_dashboard_data("Humidity", module), time) >>
        co2 ==
            << create_metric_data("CO2", name,
                                  get_dashboard_data("CO2", module), time) >>
        rain ==
            << create_metric_data("Rain", name,
                                  get_dashboard_data("Rain", module), time),
               create_metric_data("Rain_1_hour", name,
                                  get_dashboard_data("sum_rain_1", module), time),
               create_metric_data("Rain_24_hours", name,
                                  get_dashboard_data("sum_rain_24", module), time) >>
    IN  IF "data_type" \notin DOMAIN module
        THEN [records |-> always, raised |-> TRUE]
        ELSE [records |->
                always
                \o (IF HasTag("Temperature", module) THEN temperature ELSE <<>>)
                \o (IF HasTag("CO2", module) THEN co2 ELSE <<>>)
                \o (IF HasTag("Rain", module) THEN rain ELSE <<>>),
              raised |-> FALSE]

\* Lines 78-133 for a whole list of modules, up to the first KeyError.
RECURSIVE ModulesMetrics(_, _)
ModulesMetrics(station, modules) ==
    IF modules = <<>> THEN <<>>
    ELSE LET r == ModuleMetrics(station, Head(modules))
         IN  r.records \o (IF r.raised THEN <<>>
                           ELSE ModulesMetrics(station, Tail(modules)))

\* Lines 48-136 as a function of the station list, for a list on which no
\* subscript raises: the list fetch_weather_data returns.
RECURSIVE fetch_weather_data(_)
fetch_weather_data(stations) ==
    IF stations = <<>> THEN <<>>
    ELSE StationMetrics(Head(stations))
         \o ModulesMetrics(Head(stations), Head(stations)["modules"])
         \o fetch_weather_data(Tail(stations))

\* n copies of x.
Repeat(x, n) == [i \in 1 .. n |-> x]

\* Lines 48-75: the next station and its five records.
StationBody ==
    /\ pc = "for_station"
    /\ station_idx <= Len(weather_data)
    /\ LET records == StationMetrics(weather_data[station_idx])
       IN  /\ metric_data' = metric_data \o records
           /\ origin' = origin \o Repeat(<<station_idx, 0>>, Len(records))
    /\ walked' = walked \cup {<<station_idx, 0>>}
    /\ pc' = "modules"
    /\ UNCHANGED <<weather_data, station_idx, module_idx, send_vars>>

\* Line 78: station["modules"] is evaluated once, when the loop starts.
ModulesLookup ==
    /\ pc = "modules"
    /\ IF "modules" \in DOMAIN weather_data[station_idx]
       THEN /\ module_idx' = 1
            /\ pc' = "for_module"
       ELSE /\ module_idx' = module_idx
            /\ pc' = "KeyError"
    /\ UNCHANGED <<weather_data, metric_data, origin, walked, station_idx, send_vars>>

\* Lines 78-133: one pass of the module loop.
ModuleBody ==
    /\ pc = "for_module"
    /\ module_idx <= Len(weather_data[station_idx]["modules"])
    /\ LET r == ModuleMetrics(weather_data[station_idx],
                            weather_data[station_idx]["modules"][module_idx])
       IN  /\ metric_data' = metric_data \o r.records
           /\ origin' = origin \o Repeat(<<station_idx, module_idx>>, Len(r.records))
           /\ IF r.raised
              THEN /\ pc' = "KeyError"
                   /\ UNCHANGED <<walked, module_idx>>
              ELSE /\ pc' = "for_module"
                   /\ walked' = walked \cup {<<station_idx, module_idx>>}
                   /\ module_idx' = module_idx + 1
    /\ UNCHANGED <<weather_data, station_idx, send_vars>>

\* Line 78: the module loop is exhausted; on to the next station.
ModulesEnd ==
    /\ pc = "for_module"
    /\ module_idx > Len(weather_data[station_idx]["modules"])
    /\ station_idx' = station_idx + 1
    /\ pc' = "for_station"
    /\ UNCHANGED <<weather_data, metric_data, origin, walked, module_idx, send_vars>>

\* Line 136: the station loop is exhausted; return metric_data.
FetchReturn ==
    /\ pc = "for_station"
    /\ station_idx > Len(weather_data)
    /\ pc' = "returned"
    /\ UNCHANGED <<fetch_vars, send_vars>>

SendIdle ==
    /\ event_data = <<>>
    /\ item_count = 0
    /\ current_position = 0
    /\ end_position = 0
    /\ data = <<>>
    /\ put_calls = <<>>
    /\ responses = 0

\* Lines 44-45: metric_data = [] and the tree the Netatmo call returned.
Init ==
    /\ IsTreeFrom(weather_data, <<>>, 1, MaxSources)
    /\ metric_data = <<>>
    /\ origin = <<>>
    /\ walked = {}
    /\ station_idx = 1
    /\ module_idx = 1
    /\ SendIdle
    /\ pc = "for_station"

Next ==
    \/ StationBody
    \/ ModulesLookup
    \/ ModuleBody
    \/ ModulesEnd
    \/ FetchReturn

Spec == Init /\ [][Next]_vars

(***************************************************************************)
(* send_data_to_cloudwatch: the batches handed to put_metric_data.         *)
(***************************************************************************)
\* Line 179: the 20 of the end position.
BatchLimit == 20

\* Variant of BatchStep that moves on by one record less.
BatchStepShort == BatchLimit - 1

\* Line 196: the 20 the position moves on by.
BatchStep == 20

\* Lines 179-183.
EndPosition(position, count) ==
    IF position + BatchLimit - 1 >= count
    THEN count - 1
    ELSE position + BatchLimit - 1

\* Variant of Batch that cuts the range from the start of the list.
Batch_FromStart(events, position, count) ==
    PySlice(events, 0, EndPosition(position, count))

\* Line 186.
Batch(events, position, count) ==
    PySlice(events, position, EndPosition(position, count))

\* Lines 172-173.
SendEnter ==
    /\ pc = "send"
    /\ item_count' = Len(event_data)
    /\ current_position' = 0
    /\ pc' = "while"
    /\ UNCHANGED <<fetch_vars, event_data, end_position, data, put_calls, responses>>

\* Lines 177-186: the loop test holds; the range to send is cut out.
WhileBody ==
    /\ pc = "while"
    /\ current_position < item_count
    /\ end_position' = EndPosition(current_position, item_count)
    /\ data' = Batch(event_data, current_position, item_count)
    /\ pc' = "put"
    /\ UNCHANGED <<fetch_vars, event_data, item_count, current_position,
                   put_calls, responses>>

\* Lines 189-198: put_metric_data returns; the position moves on.
PutReturns ==
    /\ pc = "put"
    /\ put_calls' = Append(put_calls, data)
    /\ responses' = responses + 1
    /\ current_position' = current_position + BatchStep
    /\ pc' = "while"
    /\ UNCHANGED <<fetch_vars, event_data, item_count, end_position, data>>

\* Variant of PutRaises that swallows the exception and goes on with the
\* next range.
PutRaises_Continue ==
    /\ pc = "put"
    /\ put_calls' = Append(put_calls, data)
    /\ current_position' = current_position + BatchStep
    /\ pc' = "while"
    /\ UNCHANGED <<fetch_vars, event_data, item_count, end_position, data, responses>>

\* Line 190: put_metric_data raises.  Neither send_data_to_cloudwatch nor
\* lambda_handler catches it, so the invocation ends there.
PutRaises ==
    /\ pc = "put"
    /\ put_calls' = Append(put_calls, data)
    /\ pc' = "raised"
    /\ UNCHANGED <<fetch_vars, event_data, item_count, current_position,
                   end_position, data, responses>>

\* Line 177: the loop test fails; send_data_to_cloudwatch returns.
SendReturn ==
    /\ pc = "while"
    /\ current_position >= item_count
    /\ pc' = "sent"
    /\ UNCHANGED <<fetch_vars, send_vars>>

\* lambda_handler, line 12: send_data_to_cloudwatch is called with the list
\* fetch_weather_data returned.
InitSend ==
    /\ weather_data = <<>>
    /\ metric_data = <<>>
    /\ origin = <<>>
    /\ walked = {}
    /\ station_idx = 1
    /\ module_idx = 1
    /\ event_data \in {MetricList(n) : n \in 0 .. MaxN}
    /\ item_count = 0
    /\ current_position = 0
    /\ end_position = 0
    /\ data = <<>>
    /\ put_calls = <<>>
    /\ responses = 0
    /\ pc = "send"

NextSend ==
    \/ SendEnter
    \/ WhileBody
    \/ PutReturns
    \/ PutRaises
    \/ SendReturn

SpecSend == InitSend /\ [][NextSend]_vars

\* put_metric_data returns or raises, and the interpreter runs on.
FairSend == SpecSend /\ WF_vars(NextSend)


(***************************************************************************)
(* Properties of send_data_to_cloudwatch (SpecSend, FairSend).             *)
(***************************************************************************)
RECURSIVE Flatten(_)
Flatten(batches) ==
    IF batches = <<>> THEN <<>> ELSE Head(batches) \o Flatten(Tail(batches))

\* The 1-based place in event_data of a record of a MetricList.
IndexOf(record) == record.Value[1]

CeilDiv(n, d) == (n + d - 1) \div d

\* C1: when send_data_to_cloudwatch has returned, the batches handed to
\* put_metric_data, concatenated in call order, are the input list: no
\* record is dropped.
C1_ConcatIsInput ==
    pc = "sent" => Flatten(put_calls) = event_data

\* C2: the batch about to be handed to put_metric_data at cursor
\* current_position < N holds exactly min(20, N - current_position) records.
C2_BatchSize ==
    pc = "put" => Len(data) = Min(20, item_count - current_position)

C3_AfterFailure ==
    LET k == Len(put_calls)
    IN  /\ responses <= k
        /\ k <= responses + 1
        /\ responses < k =>
             /\ pc = "raised"
             /\ current_position = 20 * (k - 1)
             /\ \A i \in 1 .. k :
                  put_calls[i] = Batch(event_data, 20 * (i - 1), Len(event_data))

\* C3: once a put_metric_data call has raised (a call was made and no
\* response came back), the invocation has ended with the exception: the
\* calls before it are the batches 1..k-1 in order, each answered, and from
\* then on no call is made, neither of batch k again nor of a later batch.
C3_StopsOnFailure ==
    /\ []C3_AfterFailure
    /\ [][responses < Len(put_calls) => UNCHANGED <<put_calls, responses, pc>>]_vars

C3_Witness ==
    /\ pc = "raised"
    /\ Len(event_data) = 45
    /\ Len(put_calls) = 3
    /\ responses = 2

C5_Cursor ==
    LET n == Len(event_data)
    IN  /\ current_position = 20 * responses
        /\ pc = "put" => /\ current_position < n
                         /\ Len(put_calls) = responses
        /\ pc = "sent" => /\ Len(put_calls) = CeilDiv(n, 20)
                          /\ responses = Len(put_calls)
                          /\ current_position >= n
                          /\ current_position = 0 \/ current_position - 20 < n

\* C5: the cursor starts at 0 and moves on by 20 with each answered call;
\* the loop is left at the first cursor value >= N, after ceil(N / 20)
\* calls (none for N = 0); and every run ends, by returning or by the
\* exception of a call.
C5_CallsAndTermination ==
    /\ []C5_Cursor
    /\ <>(pc \in {"sent", "raised"})

C5_Witness ==
    /\ pc = "sent"
    /\ Len(event_data) = 45
    /\ Len(put_calls) = 3
    /\ current_position = 60

\* C10: every batch handed to put_metric_data is a contiguous slice of the
\* input, and over all calls the records go out in strictly increasing
\* index order, so none goes out twice.
C10_ContiguousIncreasing ==
    LET flat == Flatten(put_calls)
    IN  /\ \A c \in 1 .. Len(put_calls) :
             \A k \in 1 .. Len(put_calls[c]) :
                /\ IndexOf(put_calls[c][k]) = IndexOf(put_calls[c][1]) + k - 1
                /\ put_calls[c][k] = event_data[IndexOf(put_calls[c][k])]
        /\ \A i \in 1 .. Len(flat) :
             \A j \in 1 .. Len(flat) :
                i < j => IndexOf(flat[i]) < IndexOf(flat[j])

C10_Witness ==
    /\ pc = "sent"
    /\ Len(event_data) = 45
    /\ Len(put_calls) = 3
    /\ Len(put_calls[1]) > 0
    /\ Len(put_calls[2]) > 0
    /\ Len(put_calls[3]) > 0

(***************************************************************************)
(* Properties of fetch_weather_data (Spec).                                *)
(***************************************************************************)
\* The records of metric_data that source (s, j) appended, in order.
RecordsOf(s, j) ==
    LET tagged == [i \in 1 .. Len(metric_data) |-> <<origin[i], metric_data[i]>>]
        picked == SelectSeq(tagged, LAMBDA p : p[1] = <<s, j>>)
    IN  [i \in 1 .. Len(picked) |-> picked[i][2]]

NamesOf(records) == [i \in 1 .. Len(records) |-> records[i].MetricName]

ValuesOf(records) == [i \in 1 .. Len(records) |-> records[i].Value]

SourceAt(s, j) ==
    IF j = 0 THEN weather_data[s] ELSE weather_data[s]["modules"][j]

\* What a record must carry for a key of the source or of its dashboard.
ExpectedAttr(src, key) ==
    IF key \in DOMAIN src THEN <<src[key]>> ELSE <<>>

ExpectedReading(src, key) ==
    IF "dashboard_data" \in DOMAIN src /\ key \in DOMAIN src["dashboard_data"]
    THEN <<src["dashboard_data"][key]>>
    ELSE <<>>

\* C4: the walk never ends in an error on a missing key.
C4_NoKeyError == pc # "KeyError"

\* The station list without the modules whose reachable flag is false.
WithoutUnreachable(stations) ==
    [s \in 1 .. Len(stations) |->
        IF "modules" \in DOMAIN stations[s]
        THEN [stations[s] EXCEPT !["modules"] =
                SelectSeq(@, LAMBDA m : ~("reachable" \in DOMAIN m /\ ~m["reachable"]))]
        ELSE stations[s]]

\* C6: a module whose reachable flag is false appends no record, and the
\* list returned is the one the walk returns for the tree without these
\* modules.
C6_UnreachableSkipped ==
    /\ \A src \in walked :
         (/\ src[2] > 0
          /\ ~SourceAt(src[1], src[2])["reachable"])
         => RecordsOf(src[1], src[2]) = <<>>
    /\ pc = "returned" =>
         metric_data = fetch_weather_data(WithoutUnreachable(weather_data))

C6_Witness ==
    /\ pc = "returned"
    /\ Len(weather_data) = 1
    /\ "modules" \in DOMAIN weather_data[1]
    /\ Len(weather_data[1]["modules"]) = 2
    /\ weather_data[1]["modules"][1] = [FullModule(1, 1) EXCEPT !["reachable"] = FALSE]
    /\ weather_data[1]["modules"][2] = FullModule(1, 2)
    /\ Len(metric_data) = 13

ExpectedModuleNames(tags) ==
    << "Signal_Strength", "Battery_Status" >>
    \o (IF "Temperature" \in tags THEN << "Temperature", "Humidity" >> ELSE <<>>)
    \o (IF "CO2" \in tags THEN << "CO2" >> ELSE <<>>)
    \o (IF "Rain" \in tags THEN << "Rain", "Rain_1_hour", "Rain_24_hours" >> ELSE <<>>)

\* C7: a reachable module with data_type T appends Signal_Strength,
\* Battery_Status, then Temperature and Humidity iff "Temperature" is in T,
\* then CO2 iff "CO2" is in T, then Rain, Rain_1_hour, Rain_24_hours iff
\* "Rain" is in T: 4 records for {Temperature}, 5 for {Rain}, 8 for all
\* three, and none for a tag such as Wind.
C7_ModuleRecords ==
    \A src \in walked :
       (/\ src[2] > 0
        /\ SourceAt(src[1], src[2])["reachable"])
       => LET tags == SourceAt(src[1], src[2])["data_type"]
              recs == RecordsOf(src[1], src[2])
          IN  /\ NamesOf(recs) = ExpectedModuleNames(tags)
              /\ tags = {"Temperature"} => Len(recs) = 4
              /\ tags = {"Rain"} => Len(recs) = 5
              /\ tags = {"Temperature", "CO2", "Rain"} => Len(recs) = 8
              /\ tags = {"Wind"} => Len(recs) = 2

C7_Witness ==
    /\ pc = "returned"
    /\ Len(weather_data) = 1
    /\ "modules" \in DOMAIN weather_data[1]
    /\ weather_data[1]["modules"] =
         << [FullModule(1, 1) EXCEPT !["data_type"] = {"CO2", "Rain"}],
            [FullModule(1, 2) EXCEPT !["data_type"] = {"Wind"}] >>
    /\ NamesOf(RecordsOf(1, 1)) =
         << "Signal_Strength", "Battery_Status", "CO2", "Rain", "Rain_1_hour",
            "Rain_24_hours" >>
    /\ Len(RecordsOf(1, 2)) = 2

\* C8: every station appends exactly five records, Temperature, CO2,
\* Humidity, Noise, Air_Pressure (the dashboard's "Pressure"), each with the
\* dashboard's reading or, when the reading or the dashboard is missing,
\* with no value; without a dashboard they have no timestamp either.  When
\* the walk returns, every station has done so.
C8_StationRecords ==
    /\ \A s \in 1 .. Len(weather_data) :
         <<s, 0>> \in walked =>
           LET st   == weather_data[s]
               recs == RecordsOf(s, 0)
           IN  /\ NamesOf(recs) =
                    << "Temperature", "CO2", "Humidity", "Noise", "Air_Pressure" >>
               /\ ValuesOf(recs) =
                    << ExpectedReading(st, "Temperature"), ExpectedReading(st, "CO2"),
                       ExpectedReading(st, "Humidity"), ExpectedReading(st, "Noise"),
                       ExpectedReading(st, "Pressure") >>
               /\ "dashboard_data" \notin DOMAIN st =>
                    \A i \in 1 .. Len(recs) :
                       recs[i].Value = None /\ recs[i].Timestamp = None
    /\ pc = "returned" => \A s \in 1 .. Len(weather_data) : <<s, 0>> \in walked

C8_Witness ==
    /\ pc = "returned"
    /\ Len(weather_data) = 2
    /\ "dashboard_data" \notin DOMAIN weather_data[1]
    /\ "dashboard_data" \in DOMAIN weather_data[2]
    /\ weather_data[2]["dashboard_data"] = ("time_utc" :> TimeOf(2, 0))
    /\ Len(RecordsOf(1, 0)) = 5
    /\ Len(RecordsOf(2, 0)) = 5

\* C9: every record of metric_data carries the module_name and the
\* dashboard time_utc (absent where missing) of the source that appended
\* it.
C9_NameAndTimeOfSource ==
    \A i \in 1 .. Len(metric_data) :
       LET src == SourceAt(origin[i][1], origin[i][2])
       IN  /\ metric_data[i].Dimensions =
                << [Name |-> "ModuleName", Value |-> ExpectedAttr(src, "module_name")] >>
           /\ metric_data[i].Timestamp = ExpectedReading(src, "time_utc")

C9_Witness ==
    /\ pc = "returned"
    /\ Len(weather_data) = 1
    /\ weather_data[1] = FullStation(1) @@ ("modules" :> << FullModule(1, 1), FullModule(1, 2) >>)
    /\ Len(metric_data) = 21
    /\ metric_data[5].Timestamp = <<1000>>
    /\ metric_data[6].Timestamp = <<1001>>
    /\ metric_data[14].Timestamp = <<1002>>
    /\ metric_data[14].Dimensions[1].Value = <<"Indoor">>

=============================================================================
